---- MODULE Spec2Model ----
(***************************************************************************)
(* A model of the DEFLATE decoder of rust-diy-zlib: the bit reader         *)
(* (bit_reader.rs), canonical Huffman tables (code.rs, code_table.rs),     *)
(* the block decoder (block_decoder.rs), the History of the LZ77 window    *)
(* (lz77.rs), and the Inflator and the stream header (lib.rs).             *)
(*                                                                         *)
(* Each component has its own specification over the shared variables:     *)
(*   BitReaderSpec     calls on a BitReader                                *)
(*   CodeTableSpec     SymbolToCodeTable constructors                      *)
(*   BlockDecoderSpec  BlockDecoder::new_fixed followed by next()          *)
(*   Spec              Inflator::next_block on a constructed Inflator      *)
(*   SymbolDecodeSpec  CodeToSymbolTable::read_symbol on an inverse table  *)
(*   HistorySpec       History::append and extend, read through Index      *)
(*   WindowSpec        instructions applied to the output and the History  *)
(*   StreamHeaderSpec  StreamHeader::try_from on two bytes                 *)
(*   DynamicSpec       BlockDecoder::new_dynamic on a dynamic block        *)
(***************************************************************************)
EXTENDS Integers, Sequences, FiniteSets, TLC

VARIABLES
    reader,           \* BitReader { input, bit_buffer }; pos is the cursor of input
    ret,              \* what the last call returned
    prev,             \* what the call before it returned
    cur,              \* bits of the input behind the reader, counted by the caller
    raw_used,         \* a raw io::Read::read was issued on the reader
    code_lengths,     \* argument of SymbolToCodeTable::from_code_lengths
    codes,            \* SymbolToCodeTable(Vec<Code>) once built
    built,            \* "no", the constructor that ran, or "panic"
    ll_table,         \* BlockDecoder.ll_table
    distance_table,   \* BlockDecoder.distance_table
    overflow_checks,  \* the build panics on integer overflow (debug) or wraps
    final_seen,       \* a block whose final flag was set has been decoded
    sent,             \* what the encoder of the input put in it
    history,          \* History { buffer, start, length }
    output            \* every byte appended or emitted so far, oldest first

vars == <<reader, ret, prev, cur, raw_used, code_lengths, codes, built,
          ll_table, distance_table, overflow_checks, final_seen, sent, history,
          output>>

(***************************************************************************)
(* Bounds of the model.                                                    *)
(***************************************************************************)
MaxInput == 3          \* bytes of input given to a bare BitReader
MaxCount == 5          \* largest count passed to read_bits by the caller
MaxRawLen == 1         \* largest buffer passed to a raw read

\* Bytes the inputs are drawn from: the alternating and the mixed pattern of
\* the tests of bit_reader.rs.
ByteSamples == {170, 237}

Min(a, b) == IF a < b THEN a ELSE b

None == <<>>
Some(x) == <<x>>

RECURSIVE SeqsUpTo(_, _)
SeqsUpTo(S, n) ==
    IF n = 0 THEN {<<>>}
    ELSE LET shorter == SeqsUpTo(S, n - 1)
         IN  shorter \cup {Append(s, x) : s \in {t \in shorter : Len(t) = n - 1}, x \in S}

(***************************************************************************)
(* bit_reader.rs                                                           *)
(***************************************************************************)
BitBuffer_new(byte) == [byte |-> byte, bit_offset |-> 0]

\* A plausible slip: the most significant bit is taken first.
BitBuffer_read_bit_msb(self) ==
    LET bit == self.byte \div 128
        byte == (self.byte * 2) % 256
        bit_offset == self.bit_offset + 1
    IN  [buffer |-> IF bit_offset = 8 THEN None
                    ELSE Some([byte |-> byte, bit_offset |-> bit_offset]),
         bit |-> bit]

BitBuffer_read_bit(self) ==
    LET bit == self.byte % 2
        byte == self.byte \div 2
        bit_offset == self.bit_offset + 1
    IN  [buffer |-> IF bit_offset = 8 THEN None
                    ELSE Some([byte |-> byte, bit_offset |-> bit_offset]),
         bit |-> bit]

BitReader_new(input) == [input |-> input, pos |-> 0, bit_buffer |-> None]

Remaining(self) == Len(self.input) - self.pos

\* The byte counts one io::Read::read of the underlying source may return for a
\* buffer of len bytes: 0 only for an empty buffer or at the end of the input.
ReadCounts(self, len) ==
    IF len = 0 \/ Remaining(self) = 0 THEN {0}
    ELSE 1..Min(len, Remaining(self))

\* A plausible slip: the buffered partial byte is kept.
BitReader_read_keep(self, n) ==
    [reader |-> [self EXCEPT !.pos = @ + n],
     bytes |-> SubSeq(self.input, self.pos + 1, self.pos + n)]

\* impl io::Read for BitReader: n is the count the underlying read returns.
BitReader_read(self, n) ==
    [reader |-> [self EXCEPT !.bit_buffer = None, !.pos = @ + n],
     bytes |-> SubSeq(self.input, self.pos + 1, self.pos + n)]

\* io::Read::read_exact (the default method): read until the buffer is full;
\* a read of 0 bytes is UnexpectedEof. An empty buffer issues no read at all.
read_exact(self, len) ==
    IF len = 0 THEN [reader |-> self, ok |-> TRUE, bytes |-> <<>>]
    ELSE LET r == BitReader_read(self, Min(len, Remaining(self)))
         IN  [reader |-> r.reader,
              ok |-> Len(r.bytes) = len,
              bytes |-> IF Len(r.bytes) = len THEN r.bytes ELSE <<>>]

read_byte(self) ==
    LET r == read_exact(self, 1)
    IN  [reader |-> r.reader, ok |-> r.ok, byte |-> IF r.ok THEN r.bytes[1] ELSE 0]

take_bit(self, buffer) ==
    LET x == BitBuffer_read_bit(buffer)
    IN  [reader |-> [self EXCEPT !.bit_buffer = x.buffer], ok |-> TRUE, bit |-> x.bit]

read_bit(self) ==
    IF self.bit_buffer = None
    THEN LET b == read_byte(self)
         IN  IF b.ok THEN take_bit(b.reader, BitBuffer_new(b.byte))
             ELSE [reader |-> b.reader, ok |-> FALSE, bit |-> 0]
    ELSE take_bit(self, self.bit_buffer[1])

\* The loop of read_bits from iteration i on. value |= bit << i sets a bit that
\* is still clear, which is the sum.
RECURSIVE read_bits_loop(_, _, _, _)
read_bits_loop(self, i, count, value) ==
    IF i = count THEN [reader |-> self, ok |-> TRUE, value |-> value]
    ELSE LET b == read_bit(self)
         IN  IF b.ok THEN read_bits_loop(b.reader, i + 1, count, value + b.bit * 2^i)
             ELSE [reader |-> b.reader, ok |-> FALSE, value |-> 0]

read_bits(self, count) == read_bits_loop(self, 0, count, 0)

(***************************************************************************)
(* Reference reading of the input as a bit stream.                         *)
(***************************************************************************)
\* Bit j of the stream: bit (j mod 8) of byte (j div 8), least significant first.
BitAt(data, j) == (data[(j \div 8) + 1] \div 2^(j % 8)) % 2

RECURSIVE RefBits(_, _, _)
\* The number whose bit i is stream bit at + i, for 0 <= i < n.
RefBits(data, at, n) ==
    IF n = 0 THEN 0 ELSE BitAt(data, at) + 2 * RefBits(data, at + 1, n - 1)

NoRet == [op |-> "none", ok |-> TRUE, count |-> 0, value |-> 0, bytes |-> <<>>, at |-> 0]

\* What the caller remembers of the call before the last one.
Earlier(r) == [op |-> r.op, count |-> r.count, at |-> r.at]

(***************************************************************************)
(* Variables a specification does not use keep these values.               *)
(***************************************************************************)
TableIdle == code_lengths = <<>> /\ codes = <<>> /\ built = "no"
DecoderIdle == ll_table = <<>> /\ distance_table = <<>> /\ overflow_checks = FALSE
InflatorIdle == final_seen = FALSE
SentIdle == sent = <<>>
WindowIdle == history = <<>> /\ output = <<>>
ReaderGhostIdle == cur = 0 /\ raw_used = FALSE /\ prev = Earlier(NoRet)

(***************************************************************************)
(* BitReaderSpec: a caller of BitReader::new, read_bit, read_bits and the  *)
(* raw read.                                                               *)
(***************************************************************************)
BitReaderInit ==
    /\ reader \in {BitReader_new(d) : d \in SeqsUpTo(ByteSamples, MaxInput)}
    /\ ret = NoRet
    /\ ReaderGhostIdle /\ TableIdle /\ DecoderIdle /\ InflatorIdle /\ SentIdle /\ WindowIdle

EndOfInput == 8 * Len(reader.input)

ReadBit ==
    LET r == read_bit(reader)
    IN  /\ ret.ok
        /\ reader' = r.reader
        /\ prev' = Earlier(ret)
        /\ ret' = [op |-> "read_bit", ok |-> r.ok, count |-> 1, value |-> r.bit,
                   bytes |-> <<>>, at |-> cur]
        /\ cur' = IF r.ok THEN cur + 1 ELSE EndOfInput
        /\ UNCHANGED <<history, output, sent, raw_used, code_lengths, codes, built, ll_table,
                       distance_table, overflow_checks, final_seen>>

ReadBits ==
    \E count \in 0..MaxCount :
        LET r == read_bits(reader, count)
        IN  /\ ret.ok
            /\ reader' = r.reader
            /\ prev' = Earlier(ret)
            /\ ret' = [op |-> "read_bits", ok |-> r.ok, count |-> count,
                       value |-> r.value, bytes |-> <<>>, at |-> cur]
            /\ cur' = IF r.ok THEN cur + count ELSE EndOfInput
            /\ UNCHANGED <<history, output, sent, raw_used, code_lengths, codes, built, ll_table,
                           distance_table, overflow_checks, final_seen>>

RawRead ==
    \E len \in 0..MaxRawLen :
        \E n \in ReadCounts(reader, len) :
            LET r == BitReader_read(reader, n)
            IN  /\ ret.ok
                /\ reader' = r.reader
                /\ prev' = Earlier(ret)
                /\ ret' = [op |-> "read", ok |-> TRUE, count |-> n, value |-> 0,
                           bytes |-> r.bytes, at |-> cur]
                /\ cur' = 8 * (((cur + 7) \div 8) + n)
                /\ raw_used' = TRUE
                /\ UNCHANGED <<history, output, sent, code_lengths, codes, built, ll_table,
                               distance_table, overflow_checks, final_seen>>

BitReaderNext == ReadBit \/ ReadBits \/ RawRead

BitReaderSpec == BitReaderInit /\ [][BitReaderNext]_vars

IsBitRead(r) == r.op \in {"read_bit", "read_bits"}

\* C1: on a fresh BitReader with no raw read so far, a successful read_bit or
\* read_bits(n) returns the number whose bit i is the i-th bit read, the bits
\* being those of the input bytes in order, least significant first within a
\* byte, also across byte boundaries; the call fails only when fewer than n
\* bits are left.
C1_LsbFirstBitOrder ==
    (~raw_used /\ IsBitRead(ret)) =>
        /\ ret.ok <=> ret.at + ret.count <= EndOfInput
        /\ ret.ok => ret.value = RefBits(reader.input, ret.at, ret.count)

\* A read_bits that spans a byte boundary and returned a value with both a set
\* and a clear bit.
C1_Witness ==
    /\ ~raw_used /\ ret.op = "read_bits" /\ ret.ok
    /\ ret.at % 8 /= 0
    /\ (ret.at \div 8) /= ((ret.at + ret.count - 1) \div 8)
    /\ ret.value \notin {0, 2^ret.count - 1}

PartialBefore(r) == r.op = "read" /\ (r.at % 8) \in 1..7

\* C2: a raw read issued after k bits (1 <= k <= 7) of the current byte were
\* consumed returns the bytes that follow the partially read byte, and the next
\* read_bit / read_bits starts at the least significant bit of the first byte
\* after those the raw read returned.
C2_RawReadDiscardsPartialByte ==
    /\ PartialBefore(ret) =>
           /\ Len(ret.bytes) = ret.count
           /\ ret.bytes = [i \in 1..ret.count |-> reader.input[(ret.at \div 8) + 1 + i]]
    /\ (PartialBefore(prev) /\ IsBitRead(ret) /\ ret.ok) =>
           LET first == 8 * ((prev.at \div 8) + 1 + prev.count)
           IN  /\ first + ret.count <= EndOfInput
               /\ ret.value = RefBits(reader.input, first, ret.count)

\* A bit read that followed a raw read of at least one byte issued mid-byte.
C2_Witness ==
    /\ PartialBefore(prev) /\ prev.count >= 1
    /\ IsBitRead(ret) /\ ret.ok /\ ret.count >= 2
    /\ ret.value \notin {0, 2^ret.count - 1}

(***************************************************************************)
(* code.rs, code_table.rs: canonical Huffman codes. A Vec is a sequence:   *)
(* index i of the Vec is position i + 1.                                   *)
(***************************************************************************)
MaxSymbols == 5        \* longest code-length array drawn freely
MaxCodeLength == 3     \* largest code length in such an array

Code(bits, length) == [bits |-> bits, length |-> length]
Code_default == Code(0, 0)

RECURSIVE ForRange(_, _, _, _)
\* for i in lo..=hi { acc = body(acc, i) }: the iterations run in order; the
\* range is halved, and the first half evaluated before the second is entered,
\* only to keep the evaluation shallow.
ForRange(body(_, _), lo, hi, acc) ==
    IF lo > hi THEN acc
    ELSE IF lo = hi THEN body(acc, lo)
    ELSE LET mid == (lo + hi) \div 2
             first == ForRange(body, lo, mid, acc)
         IN  IF first = first THEN ForRange(body, mid + 1, hi, first) ELSE acc

\* code_lengths.iter().max() of a non-empty slice.
SeqMax(s) ==
    LET body(m, i) == IF s[i] > m THEN s[i] ELSE m
    IN  ForRange(body, 2, Len(s), s[1])

code_length_counts(lens) ==
    LET body(counts, i) ==
            IF lens[i] = 0 THEN counts
            ELSE [counts EXCEPT ![lens[i] + 1] = @ + 1]
    IN  ForRange(body, 1, Len(lens), [k \in 1..(SeqMax(lens) + 1) |-> 0])

\* A plausible slip: the running code is not doubled from one length to the next.
min_codes_step_noshift(code_bits, count) == code_bits + count

\* code_bits = (code_bits + counts[length - 1]) << 1. The u32 does not wrap for
\* the code lengths of DEFLATE (at most 15, over at most 288 symbols).
min_codes_step(code_bits, count) == (code_bits + count) * 2

\* Step 2: the loop state is the running code_bits and the Vec built so far.
min_codes_by_length(lens) ==
    LET counts == code_length_counts(lens)
        body(st, length) ==
            LET bits == min_codes_step(st.code_bits, counts[length])
            IN  [code_bits |-> bits,
                 min_codes |-> Append(st.min_codes, Code(bits, length))]
    IN  ForRange(body, 1, SeqMax(lens),
                 [code_bits |-> 0, min_codes |-> <<Code(0, 0)>>]).min_codes

\* A plausible slip: the next code of a length is not advanced after use.
next_code_after_stuck(bits) == bits

\* next_code.bits += 1
next_code_after(bits) == bits + 1

\* SymbolToCodeTable::from_code_lengths of a non-empty slice. Step 3 walks the
\* codes in symbol order, handing out the next code of each length.
from_code_lengths(lens) ==
    LET body(st, i) ==
            IF st.codes[i].length = 0 THEN st
            ELSE LET k == st.codes[i].length + 1
                 IN  [codes |-> [st.codes EXCEPT ![i].bits = st.next_codes[k].bits],
                      next_codes |-> [st.next_codes EXCEPT ![k].bits = next_code_after(@)]]
    IN  ForRange(body, 1, Len(lens),
                 [codes |-> [i \in 1..Len(lens) |-> Code(0, lens[i])],
                  next_codes |-> min_codes_by_length(lens)]).codes

FixedSymbols == 288
FixedDistanceSymbols == 32

\* A plausible slip: the 9-bit range stops one symbol early.
fixed_code_lengths_short ==
    [i \in 1..FixedSymbols |->
        IF i - 1 >= 256 /\ i - 1 <= 279 THEN 7
        ELSE IF i - 1 >= 144 /\ i - 1 <= 254 THEN 9 ELSE 8]

\* The array SymbolToCodeTable::fixed fills: 8, then 9 for 144..=255, 7 for 256..=279.
fixed_code_lengths ==
    [i \in 1..FixedSymbols |->
        IF i - 1 >= 256 /\ i - 1 <= 279 THEN 7
        ELSE IF i - 1 >= 144 /\ i - 1 <= 255 THEN 9 ELSE 8]

\* SymbolToCodeTable::fixed
fixed == from_code_lengths(fixed_code_lengths)

\* The fixed distance table: length 5 for all 32 symbols.
fixed_distance_code_lengths == [i \in 1..FixedDistanceSymbols |-> 5]

fixed_distance == from_code_lengths(fixed_distance_code_lengths)

(***************************************************************************)
(* CodeTableSpec: one constructor call on a code-length array.             *)
(***************************************************************************)
\* The example of RFC 1951, page 9, used by the tests of code_table.rs.
RfcExample == <<3, 3, 3, 3, 3, 2, 4, 4>>

ReaderIdle == reader = BitReader_new(<<>>) /\ ret = NoRet /\ ReaderGhostIdle

CodeTableInit ==
    /\ code_lengths \in SeqsUpTo(0..MaxCodeLength, MaxSymbols) \cup {RfcExample}
    /\ codes = <<>>
    /\ built = "no"
    /\ ReaderIdle /\ DecoderIdle /\ InflatorIdle /\ SentIdle /\ WindowIdle

OthersUnchangedByTable ==
    UNCHANGED <<history, output, sent, reader, ret, prev, cur, raw_used, ll_table, distance_table,
                overflow_checks, final_seen>>

\* from_code_lengths(&code_lengths); max().unwrap() panics on an empty slice.
FromCodeLengths ==
    /\ built = "no"
    /\ IF code_lengths = <<>>
       THEN built' = "panic" /\ codes' = <<>>
       ELSE built' = "from_code_lengths" /\ codes' = from_code_lengths(code_lengths)
    /\ UNCHANGED code_lengths
    /\ OthersUnchangedByTable

Fixed ==
    /\ built = "no"
    /\ code_lengths = <<>>
    /\ built' = "fixed"
    /\ code_lengths' = fixed_code_lengths
    /\ codes' = fixed
    /\ OthersUnchangedByTable

FixedDistance ==
    /\ built = "no"
    /\ code_lengths = <<>>
    /\ built' = "fixed_distance"
    /\ code_lengths' = fixed_distance_code_lengths
    /\ codes' = fixed_distance
    /\ OthersUnchangedByTable

CodeTableNext == FromCodeLengths \/ Fixed \/ FixedDistance

CodeTableSpec == CodeTableInit /\ [][CodeTableNext]_vars

TableBuilt == built \in {"from_code_lengths", "fixed", "fixed_distance"}

Symbols == 1..Len(code_lengths)

\* Number of symbols of length L; length 0 counts for nothing.
CountOfLength(L) ==
    IF L = 0 THEN 0 ELSE Cardinality({s \in Symbols : code_lengths[s] = L})

RECURSIVE MinCode(_)
MinCode(L) == IF L = 0 THEN 0 ELSE 2 * (MinCode(L - 1) + CountOfLength(L - 1))

EarlierOfSameLength(s) ==
    Cardinality({t \in Symbols : t < s /\ code_lengths[t] = code_lengths[s]})

\* C3: from_code_lengths gives each symbol s of length L > 0 the codeword
\* min_code[L] + (number of earlier symbols of length L), with min_code[0] = 0
\* and min_code[L] = (min_code[L-1] + count[L-1]) << 1, count[0] taken as 0;
\* symbols of length 0 get no codeword; lengths [3,3,3,3,3,2,4,4] give
\* 010,011,100,101,110,00,1110,1111.
C3_CanonicalAssignment ==
    TableBuilt =>
        /\ Len(codes) = Len(code_lengths)
        /\ \A s \in Symbols :
               IF code_lengths[s] > 0
               THEN codes[s] = Code(MinCode(code_lengths[s]) + EarlierOfSameLength(s),
                                    code_lengths[s])
               ELSE codes[s] = Code_default
        /\ code_lengths = RfcExample =>
               codes = <<Code(2, 3), Code(3, 3), Code(4, 3), Code(5, 3), Code(6, 3),
                         Code(0, 2), Code(14, 4), Code(15, 4)>>

\* A table built from an array with an unused symbol, two symbols of one length
\* and a longer symbol after them.
C3_Witness ==
    /\ built = "from_code_lengths"
    /\ \E s, t, u, z \in Symbols :
           /\ s < t /\ code_lengths[s] > 0 /\ code_lengths[s] = code_lengths[t]
           /\ code_lengths[u] > code_lengths[s]
           /\ code_lengths[z] = 0
           /\ codes[t].bits = codes[s].bits + 1

Used == {s \in Symbols : code_lengths[s] > 0}

\* Sum over the used symbols of 2^(M - length).
KraftSum(M) ==
    LET body(sum, s) == IF code_lengths[s] > 0 THEN sum + 2^(M - code_lengths[s]) ELSE sum
    IN  ForRange(body, 1, Len(code_lengths), 0)

Kraft ==
    code_lengths /= <<>> /\ KraftSum(SeqMax(code_lengths)) <= 2^SeqMax(code_lengths)

\* a is a prefix of b, both read most significant bit first.
IsPrefix(a, b) ==
    a.length <= b.length /\ b.bits \div 2^(b.length - a.length) = a.bits

\* C4: when the nonzero lengths satisfy the Kraft inequality the table is
\* prefix-free (no assigned codeword is a prefix of another) and, among symbols
\* of equal length, codeword values are strictly increasing with symbol index.
C4_PrefixFreeAndIncreasing ==
    (TableBuilt /\ Kraft) =>
        /\ \A s, t \in Used : s /= t => ~IsPrefix(codes[s], codes[t])
        /\ \A s, t \in Used :
               (s < t /\ code_lengths[s] = code_lengths[t]) => codes[s].bits < codes[t].bits

\* A Kraft-legal table with two symbols of one length and one of another.
C4_Witness ==
    /\ built = "from_code_lengths" /\ Kraft
    /\ \E s, t, u \in Used :
           /\ s < t /\ code_lengths[s] = code_lengths[t]
           /\ code_lengths[u] /= code_lengths[s]

FixedLengthOf(symbol) ==
    IF symbol <= 143 THEN 8
    ELSE IF symbol <= 255 THEN 9
    ELSE IF symbol <= 279 THEN 7 ELSE 8

\* C5: the fixed literal/length table has lengths 8 for symbols 0-143, 9 for
\* 144-255, 7 for 256-279 and 8 for 280-287, with codewords 0 = 00110000,
\* 143 = 10111111, 144 = 110010000, 255 = 111111111, 256 = 0000000,
\* 279 = 0010111, 280 = 11000000, 287 = 11000111; the fixed distance table
\* gives each of the 32 distance symbols s the 5-bit codeword of value s.
C5_FixedTables ==
    /\ built = "fixed" =>
           /\ Len(codes) = 288
           /\ \A symbol \in 0..287 : codes[symbol + 1].length = FixedLengthOf(symbol)
           /\ codes[0 + 1] = Code(48, 8)
           /\ codes[143 + 1] = Code(191, 8)
           /\ codes[144 + 1] = Code(400, 9)
           /\ codes[255 + 1] = Code(511, 9)
           /\ codes[256 + 1] = Code(0, 7)
           /\ codes[279 + 1] = Code(23, 7)
           /\ codes[280 + 1] = Code(192, 8)
           /\ codes[287 + 1] = Code(199, 8)
    /\ built = "fixed_distance" =>
           /\ Len(codes) = 32
           /\ \A symbol \in 0..31 : codes[symbol + 1] = Code(symbol, 5)

\* The fixed literal/length table has been built, its last symbol holding a code.
C5_Witness == built = "fixed" /\ Len(codes) = 288 /\ codes[288].length > 0

(***************************************************************************)
(* lib.rs: the stream header and the Inflator.                             *)
(***************************************************************************)
MaxBlocks == 2         \* blocks in an input
MaxStoredLen == 2      \* largest LEN of a stored block drawn

\* BitRange::bits for u8: mask = 0xFF >> (7 - end); (self & mask) >> start.
\* A plausible slip: the end of the range is taken as exclusive.
bits_end_exclusive(self, start, end) == (self % 2^end) \div 2^start

bits(self, start, end) == (self % 2^(end + 1)) \div 2^start

Err(kind, a, b) == [kind |-> kind, a |-> a, b |-> b]

\* impl TryFrom<&[u8; 2]> for StreamHeader
StreamHeader_try_from(cmf, flg) ==
    LET method == bits(cmf, 0, 3)
        info == bits(cmf, 4, 7)
        flags == [preset_dictionary |-> bits(flg, 5, 5) /= 0,
                  compression_level |-> bits(flg, 6, 7)]
        checksum == cmf * 256 + flg
    IN  IF method /= 8 THEN Err("InvalidCompressionMethod", method, 0)
        ELSE IF info >= 8 THEN Err("InvalidCompressionInfo", info, 0)
        ELSE IF checksum % 31 /= 0 THEN Err("FlagCheckMismatch", checksum, 0)
        ELSE [kind |-> "Ok", method |-> method, info |-> info, flags |-> flags]

\* Inflator::try_new: the reader of the Inflator it returns, or the error.
Inflator_try_new(input) ==
    LET h == read_exact(BitReader_new(input), 2)
    IN  IF ~h.ok THEN [kind |-> "IoError", reader |-> h.reader]
        ELSE [kind |-> StreamHeader_try_from(h.bytes[1], h.bytes[2]).kind,
              reader |-> h.reader]

\* BitRead::read_u16: two raw bytes, little-endian.
read_u16(self) ==
    LET r == read_exact(self, 2)
    IN  [reader |-> r.reader, ok |-> r.ok,
         value |-> IF r.ok THEN r.bytes[1] + 256 * r.bytes[2] ELSE 0]

\* !length on a u16
not_u16(length) == 65535 - length

Block(kind, data, a, b) == [kind |-> kind, data |-> data, a |-> a, b |-> b]

\* A plausible slip: the error carries its two values in the other order.
mismatch_swapped(length, inverse_length) ==
    Block("LengthComplementMismatch", <<>>, inverse_length, length)

\* Err(InflateError::LengthComplementMismatch(length, inverse_length))
mismatch(length, inverse_length) ==
    Block("LengthComplementMismatch", <<>>, length, inverse_length)

\* Inflator::read_uncompressed_block
read_uncompressed_block(self) ==
    LET length == read_u16(self)
        inverse_length == read_u16(length.reader)
        data == read_exact(inverse_length.reader, length.value)
    IN  IF ~length.ok THEN [reader |-> length.reader, result |-> Block("IoError", <<>>, 0, 0)]
        ELSE IF ~inverse_length.ok
        THEN [reader |-> inverse_length.reader, result |-> Block("IoError", <<>>, 0, 0)]
        ELSE IF inverse_length.value /= not_u16(length.value)
        THEN [reader |-> inverse_length.reader,
              result |-> mismatch(length.value, inverse_length.value)]
        ELSE IF ~data.ok THEN [reader |-> data.reader, result |-> Block("IoError", <<>>, 0, 0)]
        ELSE [reader |-> data.reader, result |-> Block("Ok", data.bytes, 0, 0)]

\* Inflator::next_block; is_final is the flag it reads and drops.
next_block(self) ==
    LET is_final_block == read_bit(self)
        block_type == read_bits(is_final_block.reader, 2)
        block == read_uncompressed_block(block_type.reader)
    IN  IF ~is_final_block.ok
        THEN [reader |-> is_final_block.reader, is_final |-> 0,
              result |-> Block("IoError", <<>>, 0, 0)]
        ELSE IF ~block_type.ok
        THEN [reader |-> block_type.reader, is_final |-> is_final_block.bit,
              result |-> Block("IoError", <<>>, 0, 0)]
        ELSE IF block_type.value /= 0
        THEN [reader |-> block_type.reader, is_final |-> is_final_block.bit,
              result |-> Block("UnimplementedBlockType", <<>>, block_type.value, 0)]
        ELSE [reader |-> block.reader, is_final |-> is_final_block.bit,
              result |-> block.result]

(***************************************************************************)
(* Spec: an Inflator built by try_new, then next_block for as long as the  *)
(* caller asks and no call has failed.                                     *)
(***************************************************************************)
\* The header of the tests of lib.rs: 0x48, 0b1010_0000 + 8.
ValidHeader == <<72, 168>>

LE16(x) == <<x % 256, x \div 256>>

\* The bytes of one block: the header bits (the unused upper bits vary with
\* len), and for a stored block LEN, NLEN and the payload bytes 1, 2, ...
BlockBytes(final, type, len, nlen, given) ==
    <<final + 2 * type + 8 * ((11 * len) % 32)>>
    \o (IF type = 0 THEN LE16(len) \o LE16(nlen) \o [i \in 1..given |-> i] ELSE <<>>)

\* Stored blocks: well-formed, with a wrong NLEN, and cut one byte short; and
\* the blocks of the other three types.
BlockSamples ==
    {BlockBytes(final, 0, len, 65535 - len - wrong, len) :
        final \in 0..1, len \in 0..MaxStoredLen, wrong \in 0..1}
    \cup {BlockBytes(final, 0, len, 65535 - len, len - 1) :
        final \in 0..1, len \in 1..MaxStoredLen}
    \cup {BlockBytes(final, type, 0, 0, 0) : final \in 0..1, type \in 1..3}

RECURSIVE BodySamples(_)
\* Inputs of up to n blocks.
BodySamples(n) ==
    IF n = 0 THEN {<<>>}
    ELSE {<<>>} \cup {b \o rest : b \in BlockSamples, rest \in BodySamples(n - 1)}

Init ==
    /\ reader \in {Inflator_try_new(ValidHeader \o body).reader : body \in BodySamples(MaxBlocks)}
    /\ ret = NoRet
    /\ final_seen = FALSE
    /\ ReaderGhostIdle /\ TableIdle /\ DecoderIdle /\ SentIdle /\ WindowIdle

NextBlock ==
    LET r == next_block(reader)
    IN  /\ ret.ok
        /\ reader' = r.reader
        /\ ret' = [op |-> "next_block", ok |-> r.result.kind = "Ok",
                   kind |-> r.result.kind, bytes |-> r.result.data,
                   a |-> r.result.a, b |-> r.result.b, at |-> reader.pos]
        /\ final_seen' = (final_seen \/ (r.result.kind = "Ok" /\ r.is_final = 1))
        /\ UNCHANGED <<history, output, sent, prev, cur, raw_used, code_lengths, codes, built, ll_table,
                       distance_table, overflow_checks>>

Next == NextBlock

Spec == Init /\ [][Next]_vars

\* The call read its block header from a byte of the input.
HeaderRead == ret.op = "next_block" /\ ret.at < Len(reader.input)

\* The 2-bit block type field: bits 1 and 2 of the header byte.
BlockTypeField == (reader.input[ret.at + 1] \div 2) % 4

\* Byte i (from 1) after the header byte, or -1 past the end of the input.
After(i) == IF ret.at + 1 + i <= Len(reader.input) THEN reader.input[ret.at + 1 + i] ELSE -1

RECURSIVE Complement(_, _)
\* The bitwise complement of x in n bits.
Complement(x, n) ==
    IF n = 0 THEN 0 ELSE (1 - (x % 2)) + 2 * Complement(x \div 2, n - 1)

\* C6: a stored block (type 0) discards the rest of the header byte, reads LEN
\* and NLEN as 16-bit little-endian values, and returns exactly the next LEN
\* input bytes when NLEN is the bitwise complement of LEN; otherwise it fails
\* with LengthComplementMismatch(LEN, NLEN) and returns no data.
C6_StoredBlock ==
    (HeaderRead /\ BlockTypeField = 0) =>
        LET LEN == After(1) + 256 * After(2)
            NLEN == After(3) + 256 * After(4)
        IN  IF After(4) = -1 THEN ret.kind = "IoError"
            ELSE IF NLEN = Complement(LEN, 16)
            THEN IF After(4 + LEN) = -1 /\ LEN > 0 THEN ret.kind = "IoError"
                 ELSE /\ ret.kind = "Ok"
                      /\ ret.bytes = [i \in 1..LEN |-> After(4 + i)]
            ELSE /\ ret.kind = "LengthComplementMismatch"
                 /\ ret.a = LEN /\ ret.b = NLEN
                 /\ ret.bytes = <<>>

\* A second stored block decoded to its two payload bytes.
C6_Witness ==
    /\ HeaderRead /\ BlockTypeField = 0 /\ ret.at > 2
    /\ ret.kind = "Ok" /\ ret.bytes = <<1, 2>>

\* C7 as claimed: reading a block header fails with the unimplemented/reserved
\* block type error exactly when the 2-bit type field is 3; types 0, 1 and 2
\* are dispatched to their decoders and do not raise it.
C7_OnlyType3Unimplemented ==
    HeaderRead => (ret.kind = "UnimplementedBlockType" <=> BlockTypeField = 3)

\* C8 as claimed: once a block whose final flag is set has been decoded the
\* stream is complete and no further block header is read from the input.
C8_StopsAfterFinalBlock == [][final_seen => reader' = reader]_vars

(***************************************************************************)
(* code_table.rs (Code -> symbol) and block_decoder.rs.                    *)
(***************************************************************************)
\* Code::append_bit: (bits << 1) | bit, the shifted-in bit being clear.
Code_append_bit(self, bit) == Code(self.bits * 2 + bit, self.length + 1)

\* SymbolToCodeTable::inverse: a HashMap filled in symbol order, so the last
\* symbol inserted under a Code is the one it keeps.
inverse(table) ==
    [c \in {table[i] : i \in 1..Len(table)} |->
        (CHOOSE i \in 1..Len(table) :
            table[i] = c /\ \A j \in 1..Len(table) : table[j] = c => j <= i) - 1]

\* CodeToSymbolTable::fixed, which BlockDecoder::new_fixed calls fixed_ll.
CodeToSymbolTable_fixed == inverse(fixed)

CodeToSymbolTable_fixed_distance == inverse(fixed_distance)

RECURSIVE read_symbol_loop(_, _, _)
read_symbol_loop(table, self, code) ==
    IF code \in DOMAIN table THEN [reader |-> self, ok |-> TRUE, symbol |-> table[code]]
    ELSE LET b == read_bit(self)
         IN  IF b.ok THEN read_symbol_loop(table, b.reader, Code_append_bit(code, b.bit))
             ELSE [reader |-> b.reader, ok |-> FALSE, symbol |-> 0]

\* CodeToSymbolTable::read_symbol
read_symbol(table, self) == read_symbol_loop(table, self, Code_default)

U16 == 65536

\* a + b on u16: a build with overflow checks panics, another wraps.
add_u16(a, b, checks) ==
    IF a + b < U16 THEN [panic |-> FALSE, value |-> a + b]
    ELSE [panic |-> checks, value |-> (a + b) % U16]

\* a << n on u16, n < 16: the bits shifted out are lost.
shl_u16(a, n) == (a * 2^n) % U16

Value(kind, reader_, value) == [kind |-> kind, reader |-> reader_, value |-> value]

\* A plausible slip: the extra-bit count is taken from the first symbol with extra bits.
length_extra_bit_count_265(symbol) == (symbol - 265) \div 4

\* let extra_bit_count = (symbol - 261) / 4;
length_extra_bit_count(symbol) == (symbol - 261) \div 4

\* read_length, symbols 265..284: extra_bits is what read_bits returned.
read_length_extra(symbol, extra_bit_count, extra_bits) ==
    LET base == shl_u16(((symbol - 265) % 4) + 4, extra_bit_count)
    IN  IF extra_bits.ok THEN Value("Ok", extra_bits.reader, 3 + base + extra_bits.value)
        ELSE Value("IoError", extra_bits.reader, 0)

\* BlockDecoder::read_length
BlockDecoder_read_length(self, symbol) ==
    IF symbol <= 264 THEN Value("Ok", self, symbol - 254)
    ELSE IF symbol <= 284
    THEN read_length_extra(symbol, length_extra_bit_count(symbol),
                           read_bits(self, length_extra_bit_count(symbol)))
    ELSE IF symbol = 285 THEN Value("Ok", self, 258)
    ELSE Value("InvalidLengthSymbol", self, symbol)

\* let extra_bit_count = symbol / 2 + 1;
distance_extra_bit_count(symbol) == (symbol \div 2) + 1

\* read_distance, symbols 4..29: extra_bits is what read_bits returned.
read_distance_extra(symbol, extra_bit_count, extra_bits, checks) ==
    LET base == shl_u16((symbol % 2) + 2, extra_bit_count)
        one_base == add_u16(1, base, checks)
        sum == add_u16(one_base.value, extra_bits.value, checks)
    IN  IF ~extra_bits.ok THEN Value("IoError", extra_bits.reader, 0)
        ELSE IF one_base.panic \/ sum.panic THEN Value("panic", extra_bits.reader, 0)
        ELSE Value("Ok", extra_bits.reader, sum.value)

\* read_distance once read_symbol has returned s.
read_distance_symbol(s, checks) ==
    IF ~s.ok THEN Value("IoError", s.reader, 0)
    ELSE IF s.symbol <= 3 THEN Value("Ok", s.reader, s.symbol + 1)
    ELSE IF s.symbol <= 29
    THEN read_distance_extra(s.symbol, distance_extra_bit_count(s.symbol),
                             read_bits(s.reader, distance_extra_bit_count(s.symbol)), checks)
    ELSE Value("InvalidDistanceSymbol", s.reader, s.symbol % 256)

\* BlockDecoder::read_distance
BlockDecoder_read_distance(self, table, checks) ==
    read_distance_symbol(read_symbol(table, self), checks)

Instruction(kind, a, b) == [kind |-> kind, a |-> a, b |-> b]

\* next once read_length has returned length and read_distance distance.
next_back_reference(length, distance) ==
    IF distance.kind /= "Ok"
    THEN [reader |-> distance.reader, result |-> Instruction(distance.kind, distance.value, 0)]
    ELSE [reader |-> distance.reader,
          result |-> Instruction("BackReference", length.value, distance.value)]

\* next once read_length has returned length.
next_length(length, dist, checks) ==
    IF length.kind /= "Ok"
    THEN [reader |-> length.reader, result |-> Instruction(length.kind, length.value, 0)]
    ELSE next_back_reference(length, BlockDecoder_read_distance(length.reader, dist, checks))

\* next once read_symbol has returned s.
next_symbol(s, dist, checks) ==
    IF ~s.ok THEN [reader |-> s.reader, result |-> Instruction("IoError", 0, 0)]
    ELSE IF s.symbol < 256
    THEN [reader |-> s.reader, result |-> Instruction("Literal", s.symbol, 0)]
    ELSE IF s.symbol = 256
    THEN [reader |-> s.reader, result |-> Instruction("EndOfBlock", 0, 0)]
    ELSE next_length(BlockDecoder_read_length(s.reader, s.symbol), dist, checks)

\* BlockDecoder::next: the reader it leaves and the Instruction or error.
BlockDecoder_next(self, ll, dist, checks) == next_symbol(read_symbol(ll, self), dist, checks)

(***************************************************************************)
(* BlockDecoderSpec: BlockDecoder::new_fixed on the encoding of one        *)
(* instruction, then next() until the block ends or a call fails.          *)
(***************************************************************************)
\* RFC 1951, 3.2.5: extra bits of the length symbols 257..285 and of the
\* distance symbols 0..29, as an encoder writes them.
RfcLengthExtraBits ==
    <<0, 0, 0, 0, 0, 0, 0, 0, 1, 1, 1, 1, 2, 2, 2, 2, 3, 3, 3, 3, 4, 4, 4, 4, 5, 5, 5, 5, 0>>
RfcDistanceExtraBits ==
    <<0, 0, 0, 0, 1, 1, 2, 2, 3, 3, 4, 4, 5, 5, 6, 6, 7, 7, 8, 8, 9, 9, 10, 10, 11, 11,
      12, 12, 13, 13>>

LengthExtraBitsOf(symbol) ==
    IF symbol >= 257 /\ symbol <= 285 THEN RfcLengthExtraBits[symbol - 256] ELSE 0
DistanceExtraBitsOf(symbol) ==
    IF symbol <= 29 THEN RfcDistanceExtraBits[symbol + 1] ELSE 0

\* A codeword as the encoder writes it: most significant bit first.
MsbFirst(code) == [i \in 1..code.length |-> (code.bits \div 2^(code.length - i)) % 2]
\* An n-bit field as the encoder writes it: least significant bit first.
LsbFirst(value, n) == [i \in 1..n |-> (value \div 2^(i - 1)) % 2]

\* The bytes holding a bit sequence, the first bit in the lowest bit of the
\* first byte; the last byte is filled with zero bits.
Pack(bitseq) ==
    LET bit(j) == IF j <= Len(bitseq) THEN bitseq[j] ELSE 0
        byte(k) == bit(8 * k - 7) + 2 * bit(8 * k - 6) + 4 * bit(8 * k - 5)
                   + 8 * bit(8 * k - 4) + 16 * bit(8 * k - 3) + 32 * bit(8 * k - 2)
                   + 64 * bit(8 * k - 1) + 128 * bit(8 * k)
    IN  [k \in 1..((Len(bitseq) + 7) \div 8) |-> byte(k)]

\* One instruction of a fixed-Huffman block, followed by 16 bits of padding.
Encode(p) ==
    Pack(MsbFirst(fixed[p.ll + 1])
         \o LsbFirst(p.len_extra, LengthExtraBitsOf(p.ll))
         \o (IF p.ll >= 257 /\ p.ll <= 285
             THEN MsbFirst(fixed_distance[p.dist + 1])
                  \o LsbFirst(p.dist_extra, DistanceExtraBitsOf(p.dist))
             ELSE <<>>)
         \o [i \in 1..16 |-> p.pad])

\* Every literal/length symbol with every value of its extra bits, before a
\* distance symbol without extra bits.
LengthSamples ==
    {p \in [ll : 0..287, len_extra : 0..31, dist : {0, 3}, dist_extra : {0}, pad : {0}] :
        p.len_extra < 2^LengthExtraBitsOf(p.ll)}

\* Every distance symbol with the lowest and highest values of its extra bits.
DistanceSamples ==
    {p \in [ll : {257, 284}, len_extra : {0}, dist : 0..31,
            dist_extra : {0, 1} \cup {2^e - 1 : e \in 1..13}, pad : 0..1] :
        /\ p.dist_extra < 2^DistanceExtraBitsOf(p.dist)
        /\ p.dist_extra \in {0, 1, 2^DistanceExtraBitsOf(p.dist) - 1}}

BlockDecoderInit ==
    /\ sent \in LengthSamples \cup DistanceSamples
    /\ reader = BitReader_new(Encode(sent))
    /\ ll_table = CodeToSymbolTable_fixed
    /\ distance_table = CodeToSymbolTable_fixed_distance
    /\ overflow_checks \in BOOLEAN
    /\ ret = NoRet
    /\ ReaderGhostIdle /\ TableIdle /\ InflatorIdle /\ WindowIdle

\* Bits of the input behind the reader.
ConsumedBits(self) ==
    8 * self.pos - (IF self.bit_buffer = None THEN 0 ELSE 8 - self.bit_buffer[1].bit_offset)

DecoderNext ==
    \E r \in {BlockDecoder_next(reader, ll_table, distance_table, overflow_checks)} :
        /\ ret.op = "none" \/ ret.ok
        /\ reader' = r.reader
        /\ ret' = [op |-> "next", ok |-> r.result.kind \in {"Literal", "BackReference"},
                   kind |-> r.result.kind, a |-> r.result.a, b |-> r.result.b,
                   at |-> ConsumedBits(reader), used |-> ConsumedBits(r.reader)]
        /\ UNCHANGED <<history, output, sent, prev, cur, raw_used, code_lengths, codes, built, ll_table,
                       distance_table, overflow_checks, final_seen>>

BlockDecoderNext == DecoderNext

BlockDecoderSpec == BlockDecoderInit /\ [][BlockDecoderNext]_vars

\* The call decoded the instruction the encoder wrote.
FirstNext == ret.op = "next" /\ ret.at = 0

IsLengthSymbol(symbol) == symbol >= 257 /\ symbol <= 285

\* The distance of symbol s with extra-bit value x: 1..4 for s in 0..3, then
\* pairs of symbols with 1,1,2,2,...,13,13 extra bits.
StandardDistance(s, x) ==
    IF s <= 3 THEN s + 1
    ELSE 1 + ((s % 2) + 2) * 2^((s \div 2) - 1) + x

\* C9 as claimed: read_distance returns the standard DEFLATE distance for every
\* distance symbol 0..29 and every value of its extra bits, always within
\* 1..32768 and without 16-bit overflow; a symbol >= 30 fails with
\* InvalidDistanceSymbol(s).
C9_StandardDistance ==
    (FirstNext /\ IsLengthSymbol(sent.ll)) =>
        IF sent.dist <= 29
        THEN /\ ret.kind = "BackReference"
             /\ ret.b = StandardDistance(sent.dist, sent.dist_extra)
             /\ ret.b >= 1 /\ ret.b <= 32768
        ELSE ret.kind = "InvalidDistanceSymbol" /\ ret.a = sent.dist

\* The length the claim gives symbol s with extra-bit value x.
ClaimedLength(s, x) ==
    IF s <= 264 THEN s - 254
    ELSE IF s <= 284 THEN 3 + (((s - 265) % 4) + 4) * 2^((s - 261) \div 4) + x
    ELSE 258

\* C10: read_length returns s - 254 for s in 257..264, 3 + ((((s-265) mod 4)
\* + 4) << e) + extra with e = (s-261)/4 extra bits for s in 265..284 and 258
\* for s = 285, always within 3..258; 286 and 287 fail with
\* InvalidLengthSymbol(s); symbols below 256 decode to Literal(s) and 256 to
\* EndOfBlock without reading extra bits.
C10_LengthSymbols ==
    FirstNext =>
        LET s == sent.ll
            bits_of_s == fixed[s + 1].length
        IN  /\ s < 256 => (ret.kind = "Literal" /\ ret.a = s /\ ret.used = bits_of_s)
            /\ s = 256 => (ret.kind = "EndOfBlock" /\ ret.used = bits_of_s)
            /\ s > 285 => (ret.kind = "InvalidLengthSymbol" /\ ret.a = s)
            /\ IsLengthSymbol(s) =>
                   /\ ret.kind = "BackReference" =>
                          /\ ret.a = ClaimedLength(s, sent.len_extra)
                          /\ ret.a >= 3 /\ ret.a <= 258
                   /\ sent.dist <= 3 =>
                          /\ ret.kind = "BackReference"
                          /\ ret.used = bits_of_s + LengthExtraBitsOf(s) + 5

\* A length symbol with five extra bits, not all clear, decoded with its distance.
C10_Witness ==
    /\ FirstNext /\ sent.ll = 284 /\ sent.len_extra = 21
    /\ ret.kind = "BackReference" /\ ret.a = 3 + 224 + 21

(***************************************************************************)
(* SymbolDecodeSpec: a table built by from_code_lengths(..).inverse() and  *)
(* read_symbol called on a byte input until a call fails.                  *)
(***************************************************************************)
MaxDecodeSymbols == 3   \* longest code-length array of a decoding table
MaxDecodeLength == 2    \* largest code length in such an array
MaxDecodeInput == 2     \* bytes of input

\* Bytes of the decoded inputs: all bits clear, alternating, all bits set.
DecodeBytes == {0, 170, 255}

\* Code-length arrays, zeros included, whose used lengths satisfy Kraft.
SymbolDecodeInit ==
    /\ code_lengths \in SeqsUpTo(0..MaxDecodeLength, MaxDecodeSymbols) \ {<<>>}
    /\ Kraft
    /\ codes = from_code_lengths(code_lengths)
    /\ built = "from_code_lengths"
    /\ ll_table = inverse(codes)
    /\ distance_table = <<>> /\ overflow_checks = FALSE
    /\ reader \in {BitReader_new(d) : d \in SeqsUpTo(DecodeBytes, MaxDecodeInput)}
    /\ ret = NoRet
    /\ ReaderGhostIdle /\ InflatorIdle /\ SentIdle /\ WindowIdle

ReadSymbol ==
    \E r \in {read_symbol(ll_table, reader)} :
        /\ ret.op = "none" \/ ret.ok
        /\ reader' = r.reader
        /\ ret' = [op |-> "read_symbol", ok |-> r.ok,
                   kind |-> IF r.ok THEN "Ok" ELSE "IoError", a |-> r.symbol,
                   at |-> ConsumedBits(reader), used |-> ConsumedBits(r.reader)]
        /\ UNCHANGED <<history, output, sent, prev, cur, raw_used, code_lengths, codes, built, ll_table,
                       distance_table, overflow_checks, final_seen>>

SymbolDecodeNext == ReadSymbol

SymbolDecodeSpec == SymbolDecodeInit /\ [][SymbolDecodeNext]_vars

\* The input from bit `at` on begins with the codeword of symbol s (from 1).
BeginsWith(at, s) ==
    /\ at + codes[s].length <= EndOfInput
    /\ \A i \in 1..codes[s].length : BitAt(reader.input, at + i - 1) = MsbFirst(codes[s])[i]

\* No codeword of the table starts the input at bit `at`.
NoCodewordAt(at) == \A s \in Used : ~BeginsWith(at, s)

\* C11 as claimed: decoding one symbol consumes at most the maximum code length
\* of the alphabet, and when that many bits match no codeword of the table the
\* call fails with an invalid-code error instead of reading on. 15 is the
\* longest code of the literal/length and distance alphabets.
C11_BoundedSymbolDecode ==
    ret.op = "read_symbol" =>
        /\ ret.used - ret.at <= 15
        /\ (NoCodewordAt(ret.at) /\ ret.at + 15 <= EndOfInput) =>
               ret.kind = "InvalidCode"

\* C17 as claimed: on an input that begins with the codeword of a symbol s,
\* most significant bit first, read_symbol returns s after consuming exactly
\* lengths[s] >= 1 bits; it never returns a symbol of code length 0 and never
\* returns without consuming a bit.
C17_DecodeInvertsEncode ==
    ret.op = "read_symbol" =>
        /\ \A s \in Used :
               BeginsWith(ret.at, s) =>
                   /\ ret.ok /\ ret.a = s - 1
                   /\ ret.used - ret.at = code_lengths[s]
        /\ ret.ok => (code_lengths[ret.a + 1] >= 1 /\ ret.used > ret.at)

(***************************************************************************)
(* lz77.rs: History, a circular buffer. buffer[j] of the Vec is position   *)
(* j + 1 of the sequence.                                                  *)
(***************************************************************************)
MaxCapacity == 3       \* largest History capacity
MaxAppends == 5        \* bytes appended to a History

\* Bytes appended: none is the 0 that History::new fills the buffer with.
HistoryBytes == {1, 2, 3}

History_new(max_length) ==
    [buffer |-> [j \in 1..max_length |-> 0], start |-> 0, length |-> 0]

max_length(self) == Len(self.buffer)

History_len(self) == self.length

\* A plausible slip: the start of the retained bytes is left out.
buffer_index_from_zero(self, index) == index % max_length(self)

\* History::buffer_index
buffer_index(self, index) == (self.start + index) % max_length(self)

\* A plausible slip: a full History does not advance its start.
History_append_keep_start(self, byte) ==
    LET end == buffer_index(self, self.length)
    IN  [buffer |-> [self.buffer EXCEPT ![end + 1] = byte],
         start |-> self.start,
         length |-> IF self.length < max_length(self) THEN self.length + 1 ELSE self.length]

\* History::append
History_append(self, byte) ==
    LET end == buffer_index(self, self.length)
    IN  [buffer |-> [self.buffer EXCEPT ![end + 1] = byte],
         start |-> IF self.length < max_length(self) THEN self.start ELSE self.start + 1,
         length |-> IF self.length < max_length(self) THEN self.length + 1 ELSE self.length]

RECURSIVE History_extend(_, _)
\* History::extend
History_extend(self, bytes) ==
    IF bytes = <<>> THEN self
    ELSE History_extend(History_append(self, Head(bytes)), Tail(bytes))

Indexed(panic, value) == [panic |-> panic, value |-> value]

\* impl Index<isize> for History
History_index(self, index) ==
    IF index >= 0
    THEN IF index >= self.length THEN Indexed(TRUE, 0)
         ELSE Indexed(FALSE, self.buffer[buffer_index(self, index) + 1])
    ELSE IF index < -self.length THEN Indexed(TRUE, 0)
    ELSE Indexed(FALSE, self.buffer[buffer_index(self, self.length + index) + 1])

(***************************************************************************)
(* HistorySpec: History::new(capacity), then append and extend.            *)
(***************************************************************************)
HistoryInit ==
    /\ history \in {History_new(c) : c \in 1..MaxCapacity}
    /\ output = <<>>
    /\ ReaderIdle /\ TableIdle /\ DecoderIdle /\ InflatorIdle /\ SentIdle

OthersUnchangedByHistory ==
    UNCHANGED <<sent, reader, prev, cur, raw_used, code_lengths, codes, built, ll_table,
                distance_table, overflow_checks, final_seen>>

HistoryAppend ==
    \E byte \in HistoryBytes :
        /\ Len(output) < MaxAppends
        /\ history' = History_append(history, byte)
        /\ output' = Append(output, byte)
        /\ ret' = [NoRet EXCEPT !.op = "append", !.count = 1]
        /\ OthersUnchangedByHistory

HistoryExtend ==
    \E bytes \in SeqsUpTo(HistoryBytes, 2) :
        /\ Len(output) + Len(bytes) <= MaxAppends
        /\ history' = History_extend(history, bytes)
        /\ output' = output \o bytes
        /\ ret' = [NoRet EXCEPT !.op = "extend", !.count = Len(bytes)]
        /\ OthersUnchangedByHistory

HistoryNext == HistoryAppend \/ HistoryExtend

HistorySpec == HistoryInit /\ [][HistoryNext]_vars

\* C14: after n appends to a History of capacity C >= 1, len() = min(n, C);
\* history[-k] is the k-th most recently appended byte for 1 <= k <= len();
\* history[i] = history[i - len()] is the i-th oldest retained byte for
\* 0 <= i < len(); before and after eviction, an append beyond capacity
\* evicting exactly the single oldest byte.
C14_HistoryIndexing ==
    LET n == Len(output)
        len == History_len(history)
    IN  /\ len = Min(n, max_length(history))
        /\ \A k \in 1..len : History_index(history, -k) = Indexed(FALSE, output[n - k + 1])
        /\ \A j \in 0..(len - 1) :
               /\ History_index(history, j) = History_index(history, j - len)
               /\ History_index(history, j) = Indexed(FALSE, output[n - len + j + 1])

\* Two bytes have been evicted from a History of capacity 3 that holds three
\* different bytes.
C14_Witness ==
    /\ max_length(history) = 3 /\ Len(output) = 5 /\ history.start = 2
    /\ History_index(history, -1).value /= History_index(history, -2).value
    /\ History_index(history, -2).value /= History_index(history, -3).value
    /\ History_index(history, -1).value /= History_index(history, -3).value

(***************************************************************************)
(* The window reconstructor of the design (section 4.4), over the History  *)
(* of lz77.rs: it applies the Instructions a block decoder returns.        *)
(***************************************************************************)
MaxCopyLength == 8     \* largest length of a back-reference
MaxDistance == 4       \* largest distance of a back-reference
MaxOutput == 9         \* bytes emitted in all

WindowBytes == {1, 2}

Applied(kind, history_, emitted) == [kind |-> kind, history |-> history_, emitted |-> emitted]

\* Literal(b): append b to the history, emit b.
apply_literal(self, byte) == Applied("Ok", History_append(self, byte), <<byte>>)

RECURSIVE copy_loop(_, _, _, _, _)
\* Copy one byte at a time from `distance` behind the write position; every
\* byte is appended and emitted as it is produced. Indexing outside the
\* History panics, whatever was emitted before.
copy_loop(self, before, emitted, length, distance) ==
    IF length = 0 THEN Applied("Ok", self, emitted)
    ELSE LET byte == History_index(self, -distance)
         IN  IF byte.panic THEN Applied("panic", before, <<>>)
             ELSE copy_loop(History_append(self, byte.value), before,
                            Append(emitted, byte.value), length - 1, distance)

\* A plausible slip: the distance check is off by one.
distance_too_far_by_two(distance, emitted_so_far) == distance > emitted_so_far + 1

\* The distance exceeds the number of bytes emitted so far in the stream.
distance_too_far(distance, emitted_so_far) == distance > emitted_so_far

\* BackReference{length, distance}
apply_back_reference(self, emitted_so_far, length, distance) ==
    IF distance_too_far(distance, emitted_so_far) THEN Applied("DistanceTooFar", self, <<>>)
    ELSE copy_loop(self, self, <<>>, length, distance)

(***************************************************************************)
(* WindowSpec: instructions applied to a History of the window's capacity  *)
(* until one fails.                                                        *)
(***************************************************************************)
WindowInit ==
    /\ history \in {History_new(c) : c \in 1..MaxCapacity}
    /\ output = <<>>
    /\ ReaderIdle /\ TableIdle /\ DecoderIdle /\ InflatorIdle /\ SentIdle

ApplyLiteral ==
    \E byte \in WindowBytes :
        \E r \in {apply_literal(history, byte)} :
            /\ ret.ok
            /\ Len(output) < MaxOutput
            /\ history' = r.history
            /\ output' = output \o r.emitted
            /\ ret' = [op |-> "Literal", ok |-> TRUE, kind |-> r.kind, a |-> byte, b |-> 0,
                       at |-> Len(output), bytes |-> r.emitted]
            /\ OthersUnchangedByHistory

ApplyBackReference ==
    \E length \in 1..MaxCopyLength, distance \in 1..MaxDistance :
        \E r \in {apply_back_reference(history, Len(output), length, distance)} :
            /\ ret.ok
            /\ Len(output) + length <= MaxOutput
            /\ history' = r.history
            /\ output' = output \o r.emitted
            /\ ret' = [op |-> "BackReference", ok |-> r.kind = "Ok", kind |-> r.kind,
                       a |-> length, b |-> distance, at |-> Len(output),
                       bytes |-> r.emitted]
            /\ OthersUnchangedByHistory

WindowNext == ApplyLiteral \/ ApplyBackReference

WindowSpec == WindowInit /\ [][WindowNext]_vars

\* The last k bytes of the output are the k newest bytes of the history.
HistoryHolds(k) ==
    \A j \in 1..Min(k, max_length(history)) :
        History_index(history, -j) = Indexed(FALSE, output[Len(output) - j + 1])

\* What C12 says of an instruction that was applied with n = ret.at bytes out.
CopiedAsClaimed ==
    /\ ret.op = "Literal" =>
           /\ ret.kind = "Ok" /\ ret.bytes = <<ret.a>>
           /\ Len(output) = ret.at + 1 /\ output[ret.at + 1] = ret.a
           /\ HistoryHolds(1)
    /\ ret.op = "BackReference" =>
           /\ ret.kind = "Ok" /\ Len(ret.bytes) = ret.a
           /\ Len(output) = ret.at + ret.a
           /\ \A j \in 0..(ret.a - 1) :
                  /\ output[ret.at + j + 1] = output[ret.at + j + 1 - ret.b]
                  /\ ret.bytes[j + 1] = output[ret.at + j + 1]
           /\ HistoryHolds(ret.a)

CompressionInfo_window_size(info) == shl_u16(1, info + 8)

StreamHeaderInit ==
    /\ sent \in {<<cmf, flg>> : cmf \in 0..255, flg \in 0..255}
    /\ ReaderIdle /\ TableIdle /\ DecoderIdle /\ InflatorIdle /\ WindowIdle

TryFrom ==
    \E r \in {StreamHeader_try_from(sent[1], sent[2])} :
        /\ ret.op = "none"
        /\ ret' = [op |-> "try_from", ok |-> r.kind = "Ok", header |-> r,
                   window_size |-> IF r.kind = "Ok" THEN CompressionInfo_window_size(r.info)
                                   ELSE 0]
        /\ UNCHANGED <<history, output, sent, reader, prev, cur, raw_used, code_lengths, codes,
                       built, ll_table, distance_table, overflow_checks, final_seen>>

StreamHeaderNext == TryFrom

StreamHeaderSpec == StreamHeaderInit /\ [][StreamHeaderNext]_vars

\* C15: try_from accepts [cmf, flg] exactly when the low 4 bits of cmf are 8,
\* its high 4 bits are below 8 and (cmf * 256 + flg) mod 31 = 0; otherwise it
\* returns, in this order, InvalidCompressionMethod(low nibble),
\* InvalidCompressionInfo(high nibble) or FlagCheckMismatch(cmf * 256 + flg).
\* An accepted header has the preset-dictionary flag of bit 5 of flg, the
\* compression level of bits 6-7 and the window size 2^(info + 8).
C15_StreamHeader ==
    ret.op = "try_from" =>
        LET cmf == sent[1]
            flg == sent[2]
            low == cmf % 16
            high == cmf \div 16
            check == cmf * 256 + flg
        IN  /\ ret.ok <=> (low = 8 /\ high < 8 /\ check % 31 = 0)
            /\ low /= 8 => ret.header = Err("InvalidCompressionMethod", low, 0)
            /\ (low = 8 /\ high >= 8) => ret.header = Err("InvalidCompressionInfo", high, 0)
            /\ (low = 8 /\ high < 8 /\ check % 31 /= 0) =>
                   ret.header = Err("FlagCheckMismatch", check, 0)
            /\ ret.ok =>
                   /\ ret.header.info = high
                   /\ ret.header.flags.preset_dictionary = ((flg \div 32) % 2 = 1)
                   /\ ret.header.flags.compression_level = flg \div 64
                   /\ ret.window_size = 2^(high + 8)

\* The header 0x78 0xDA was accepted: a 32768-byte window, no preset dictionary,
\* compression level 3.
C15_Witness ==
    /\ ret.op = "try_from" /\ sent = <<120, 218>> /\ ret.ok
    /\ ret.window_size = 32768
    /\ ret.header.flags = [preset_dictionary |-> FALSE, compression_level |-> 3]

(***************************************************************************)
(* block_decoder.rs: BlockDecoder::new_dynamic. Beside what the            *)
(* constructor returns, the model keeps its locals: the code lengths of    *)
(* the code-length alphabet, the lengths pushed, and the trace of the      *)
(* symbols read_symbol returned with the value of their extra bits.        *)
(***************************************************************************)
\* A plausible slip: the first two entries of the order are exchanged.
cl_indexes_17_first == <<17, 16, 18, 0, 8, 7, 9, 6, 10, 5, 11, 4, 12, 3, 13, 2, 14, 1, 15>>

\* let cl_indexes = [16, 17, 18, 0, 8, ...]
cl_indexes == <<16, 17, 18, 0, 8, 7, 9, 6, 10, 5, 11, 4, 12, 3, 13, 2, 14, 1, 15>>

ClSymbols == 19

\* A plausible slip: the count of literal/length codes is taken one too high.
ll_count_of_258(hlit) == hlit + 258

\* read_bits(5)? + 257
ll_count_of(hlit) == hlit + 257

\* read_bits(5)? + 1
distance_count_of(hdist) == hdist + 1

\* read_bits(4)? + 4
cl_count_of(hclen) == hclen + 4

\* CodeToSymbolTable::from_code_lengths, taken as CodeToSymbolTable::fixed is:
\* the inverse of the SymbolToCodeTable of the lengths.
CodeToSymbolTable_from_code_lengths(lens) == inverse(from_code_lengths(lens))

\* push_repeated
push_repeated(v, value, count) == v \o [j \in 1..count |-> value]

Dynamic(kind, reader_, cl_code_lengths, lengths, trace) ==
    [kind |-> kind, reader |-> reader_, cl_code_lengths |-> cl_code_lengths,
     code_lengths |-> lengths, trace |-> trace,
     ll_lengths |-> <<>>, distance_lengths |-> <<>>]

RECURSIVE read_cl_code_lengths(_, _, _, _)
\* for i in 0..cl_count { cl_code_lengths[cl_indexes[i]] = read_bits(3)? }
read_cl_code_lengths(self, i, cl_count, cl_code_lengths) ==
    IF i = cl_count THEN Dynamic("Ok", self, cl_code_lengths, <<>>, <<>>)
    ELSE LET r == read_bits(self, 3)
         IN  IF ~r.ok THEN Dynamic("IoError", r.reader, cl_code_lengths, <<>>, <<>>)
             ELSE IF i >= Len(cl_indexes)
             THEN Dynamic("panic", r.reader, cl_code_lengths, <<>>, <<>>)
             ELSE read_cl_code_lengths(
                      r.reader, i + 1, cl_count,
                      [cl_code_lengths EXCEPT ![cl_indexes[i + 1] + 1] = r.value])

\* One entry of the trace: the symbol, the value of its extra bits, and the
\* bits of the input behind the reader before and after the extra bits.
Item(symbol, extra, at, next) == [symbol |-> symbol, extra |-> extra, at |-> at, next |-> next]

\* A repeat symbol once its extra bits have been read: count values pushed.
push_run(st, symbol, base, at, extra_bits, value) ==
    IF ~extra_bits.ok
    THEN Dynamic("IoError", extra_bits.reader, st.cl_code_lengths, st.code_lengths, st.trace)
    ELSE Dynamic("Ok", extra_bits.reader, st.cl_code_lengths,
                 push_repeated(st.code_lengths, value, base + extra_bits.value),
                 Append(st.trace, Item(symbol, extra_bits.value, at,
                                       ConsumedBits(extra_bits.reader))))

\* Symbol 16 once its extra bits have been read: the last length is repeated,
\* and there must be one.
push_previous(st, at, extra_bits) ==
    IF ~extra_bits.ok
    THEN Dynamic("IoError", extra_bits.reader, st.cl_code_lengths, st.code_lengths, st.trace)
    ELSE IF st.code_lengths = <<>>
    THEN Dynamic("DynamicCodeMalformed", extra_bits.reader, st.cl_code_lengths,
                 st.code_lengths,
                 Append(st.trace, Item(16, extra_bits.value, at,
                                       ConsumedBits(extra_bits.reader))))
    ELSE push_run(st, 16, 3, at, extra_bits, st.code_lengths[Len(st.code_lengths)])

\* The body of the while loop once read_symbol has returned s.
expand_symbol(st, s) ==
    IF ~s.ok THEN Dynamic("IoError", s.reader, st.cl_code_lengths, st.code_lengths, st.trace)
    ELSE IF s.symbol <= 15
    THEN Dynamic("Ok", s.reader, st.cl_code_lengths, Append(st.code_lengths, s.symbol),
                 Append(st.trace, Item(s.symbol, 0, ConsumedBits(s.reader),
                                       ConsumedBits(s.reader))))
    ELSE IF s.symbol = 16
    THEN push_previous(st, ConsumedBits(s.reader), read_bits(s.reader, 2))
    ELSE IF s.symbol = 17
    THEN push_run(st, 17, 3, ConsumedBits(s.reader), read_bits(s.reader, 3), 0)
    ELSE IF s.symbol = 18
    THEN push_run(st, 18, 11, ConsumedBits(s.reader), read_bits(s.reader, 7), 0)
    ELSE Dynamic("Ok", s.reader, st.cl_code_lengths, st.code_lengths, st.trace)

\* One pass of the while loop: its condition, then its body.
code_lengths_step(cl_table, st, needed) ==
    IF st.kind /= "Ok" \/ Len(st.code_lengths) >= needed THEN st
    ELSE expand_symbol(st, read_symbol(cl_table, st.reader))

RECURSIVE code_lengths_loop(_, _, _)
\* while code_lengths.len() < ll_count + distance_count { ... }: the passes
\* run in order, 64 at a time only to keep the evaluation shallow, until the
\* condition fails or an error leaves the function.
code_lengths_loop(cl_table, st, needed) ==
    LET body(s, j) == code_lengths_step(cl_table, s, needed)
        after == ForRange(body, 1, 64, st)
    IN  IF after.kind /= "Ok" \/ Len(after.code_lengths) >= needed THEN after
        ELSE code_lengths_loop(cl_table, after, needed)

\* The two arrays filled from the lengths: [0; 288] and [0; 32].
split_lengths(st, ll_count, distance_count) ==
    IF st.kind /= "Ok" THEN st
    ELSE IF \/ ll_count > FixedSymbols \/ distance_count > FixedDistanceSymbols
            \/ ll_count + distance_count > Len(st.code_lengths)
    THEN [st EXCEPT !.kind = "panic"]
    ELSE [st EXCEPT
             !.ll_lengths = [j \in 1..FixedSymbols |->
                                IF j <= ll_count THEN st.code_lengths[j] ELSE 0],
             !.distance_lengths = [j \in 1..FixedDistanceSymbols |->
                                      IF j <= distance_count
                                      THEN st.code_lengths[ll_count + j] ELSE 0]]

\* new_dynamic once the code lengths of the code-length alphabet are read.
dynamic_with_cl(cl, ll_count, distance_count) ==
    IF cl.kind /= "Ok" THEN cl
    ELSE split_lengths(
             code_lengths_loop(CodeToSymbolTable_from_code_lengths(cl.cl_code_lengths), cl,
                               ll_count + distance_count),
             ll_count, distance_count)

\* new_dynamic once the three counts are read.
dynamic_with_counts(hlit, hdist, hclen) ==
    IF ~hclen.ok THEN Dynamic("IoError", hclen.reader, <<>>, <<>>, <<>>)
    ELSE dynamic_with_cl(
             read_cl_code_lengths(hclen.reader, 0, cl_count_of(hclen.value),
                                  [j \in 1..ClSymbols |-> 0]),
             ll_count_of(hlit.value), distance_count_of(hdist.value))

dynamic_with_ll_count(hlit, hdist) ==
    IF ~hdist.ok THEN Dynamic("IoError", hdist.reader, <<>>, <<>>, <<>>)
    ELSE dynamic_with_counts(hlit, hdist, read_bits(hdist.reader, 4))

dynamic_with_hlit(hlit) ==
    IF ~hlit.ok THEN Dynamic("IoError", hlit.reader, <<>>, <<>>, <<>>)
    ELSE dynamic_with_ll_count(hlit, read_bits(hlit.reader, 5))

\* BlockDecoder::new_dynamic
BlockDecoder_new_dynamic(self) == dynamic_with_hlit(read_bits(self, 5))

(***************************************************************************)
(* DynamicSpec: BlockDecoder::new_dynamic on the bits of a dynamic block   *)
(* that follow its 3-bit block header.                                     *)
(***************************************************************************)
\* Code lengths of the code-length alphabet, in the order they are sent.
\* All 19 symbols coded (13 codes of 4 bits, 6 of 5):
FullCl == [j \in 1..19 |-> IF j <= 13 THEN 4 ELSE 5]
\* symbol 15, sent last, left out; symbol 16 without a code:
ClWithout15 == SubSeq(FullCl, 1, 18)
ClWithout16 == [FullCl EXCEPT ![1] = 0]
\* four lengths sent: codes for 18 and 0 only, for 16 and 17 only.
ClOf18And0 == <<0, 0, 1, 1>>
ClOf16And17 == <<1, 1, 0, 0>>

\* The codes an encoder derives from FullCl.
FullClCodes == from_code_lengths([sym \in 1..19 |->
                   FullCl[CHOOSE j \in 1..19 : cl_indexes[j] = sym - 1]])

It(symbol, extra) == [symbol |-> symbol, extra |-> extra]

ExtraWidth(symbol) == IF symbol = 16 THEN 2 ELSE IF symbol = 17 THEN 3
                      ELSE IF symbol = 18 THEN 7 ELSE 0

RECURSIVE EncodeItems(_)
\* The symbols' codewords, each followed by its extra bits.
EncodeItems(items) ==
    IF items = <<>> THEN <<>>
    ELSE MsbFirst(FullClCodes[Head(items).symbol + 1])
         \o LsbFirst(Head(items).extra, ExtraWidth(Head(items).symbol))
         \o EncodeItems(Tail(items))

Filler == <<It(18, 127), It(18, 127), It(18, 127)>>

\* Code-length streams: runs of zeros only; a length, its repeat and both zero
\* runs; a repeat with nothing before it; 256 zeros, then lengths on both
\* sides of the literal/length - distance boundary and their repeat; short runs.
ItemSamples ==
    {Filler,
     <<It(8, 0), It(16, 0), It(17, 2)>> \o Filler,
     <<It(16, 1)>> \o Filler,
     <<It(18, 127), It(18, 107), It(7, 0), It(6, 0), It(16, 3)>> \o Filler,
     <<It(3, 0), It(4, 0), It(5, 0), It(18, 0), It(17, 7), It(16, 2)>> \o Filler}

\* Forty bytes of one pattern, for the tables that do not code every symbol.
PatternSamples == {[j \in 1..320 |-> b] : b \in 0..1} \cup {[j \in 1..320 |-> j % 2]}

RECURSIVE EncodeCl(_)
EncodeCl(cl) == IF cl = <<>> THEN <<>> ELSE LsbFirst(Head(cl), 3) \o EncodeCl(Tail(cl))

\* HLIT, HDIST, HCLEN, the HCLEN + 4 lengths, then the code-length stream.
EncodeDynamic(p) ==
    Pack(LsbFirst(p.hlit, 5) \o LsbFirst(p.hdist, 5) \o LsbFirst(Len(p.cl) - 4, 4)
         \o EncodeCl(p.cl) \o p.payload)

DynamicSamples ==
    [hlit : {0, 29, 31}, hdist : {0, 29, 31}, cl : {FullCl},
     payload : {EncodeItems(items) : items \in ItemSamples}]
    \cup [hlit : 0..31, hdist : {1}, cl : {FullCl}, payload : {EncodeItems(Filler)}]
    \cup [hlit : {1}, hdist : 0..31, cl : {FullCl}, payload : {EncodeItems(Filler)}]
    \cup [hlit : {0}, hdist : {0}, cl : {SubSeq(FullCl, 1, n) : n \in 4..19},
          payload : PatternSamples]
    \cup [hlit : {0, 31}, hdist : {0, 31},
          cl : {ClWithout15, ClWithout16, ClOf18And0, ClOf16And17},
          payload : PatternSamples]

DynamicInit ==
    /\ sent \in DynamicSamples
    /\ reader = BitReader_new(EncodeDynamic(sent))
    /\ ret = NoRet
    /\ ReaderGhostIdle /\ TableIdle /\ DecoderIdle /\ InflatorIdle /\ WindowIdle

NewDynamic ==
    /\ ret.op = "none"
    /\ \E r \in {BlockDecoder_new_dynamic(reader)} :
        /\ reader' = r.reader
        /\ ll_table' = IF r.kind = "Ok" THEN CodeToSymbolTable_from_code_lengths(r.ll_lengths)
                       ELSE <<>>
        /\ distance_table' = IF r.kind = "Ok"
                             THEN CodeToSymbolTable_from_code_lengths(r.distance_lengths)
                             ELSE <<>>
        /\ ret' = [op |-> "new_dynamic", ok |-> r.kind = "Ok", kind |-> r.kind,
                   cl_code_lengths |-> r.cl_code_lengths, code_lengths |-> r.code_lengths,
                   ll_lengths |-> r.ll_lengths, distance_lengths |-> r.distance_lengths,
                   trace |-> r.trace]
        /\ UNCHANGED <<history, output, sent, prev, cur, raw_used, code_lengths, codes, built,
                       overflow_checks, final_seen>>

DynamicNext == NewDynamic

DynamicSpec == DynamicInit /\ [][DynamicNext]_vars

\* The three header fields, read from the input as the format lays them out.
HLIT == RefBits(reader.input, 0, 5)
HDIST == RefBits(reader.input, 5, 5)
HCLEN == RefBits(reader.input, 10, 4)

NewDynamicReturned == ret.op = "new_dynamic"

\* The order of the code-length symbols as C16 gives it.
ClaimedOrder == <<16, 17, 18, 0, 8, 7, 9, 6, 10, 5, 11, 4, 12, 3, 13, 2, 14, 1, 15>>

\* The length C16 gives code-length symbol sym: the i-th 3-bit value for
\* sym = order[i], i < HCLEN + 4, and 0 for every other symbol.
ClaimedClLength(sym) ==
    IF \E j \in 1..(HCLEN + 4) : ClaimedOrder[j] = sym
    THEN LET at == 14 + 3 * ((CHOOSE j \in 1..(HCLEN + 4) : ClaimedOrder[j] = sym) - 1)
         IN  BitAt(reader.input, at) + 2 * BitAt(reader.input, at + 1)
             + 4 * BitAt(reader.input, at + 2)
    ELSE 0

\* The lengths C16 has the first n symbols of the trace expand to.
ClaimedExpansion(trace, n) ==
    LET body(lens, j) ==
            IF trace[j].symbol <= 15 THEN Append(lens, trace[j].symbol)
            ELSE IF trace[j].symbol = 16
            THEN IF lens = <<>> THEN lens
                 ELSE lens \o [k \in 1..(3 + trace[j].extra) |-> lens[Len(lens)]]
            ELSE IF trace[j].symbol = 17 THEN lens \o [k \in 1..(3 + trace[j].extra) |-> 0]
            ELSE lens \o [k \in 1..(11 + trace[j].extra) |-> 0]
    IN  ForRange(body, 1, n, <<>>)

\* C16: the i-th 3-bit value read becomes the code length of code-length
\* symbol order[i], every other symbol getting 0; symbols 0-15 append that
\* length, 16 appends the previous length 3 + (2 extra bits) times and fails
\* with the malformed-table error when there is none, 17 appends 0
\* 3 + (3 extra bits) times, 18 appends 0 11 + (7 extra bits) times; the first
\* HLIT + 257 values are the literal/length lengths and the next HDIST + 1 the
\* distance lengths, the rest of the 288 and of the 32 being 0.
C16_DynamicCodeLengths ==
    NewDynamicReturned =>
        LET expanded == ClaimedExpansion(ret.trace, Len(ret.trace))
        IN  /\ \A sym \in 0..18 : ret.cl_code_lengths[sym + 1] = ClaimedClLength(sym)
            /\ \A j \in 1..Len(ret.trace) :
                   /\ ret.trace[j].next - ret.trace[j].at = ExtraWidth(ret.trace[j].symbol)
                   /\ ret.trace[j].extra = RefBits(reader.input, ret.trace[j].at,
                                                   ExtraWidth(ret.trace[j].symbol))
            /\ ret.kind = "DynamicCodeMalformed" <=>
                   (ret.trace /= <<>> /\ ret.trace[1].symbol = 16)
            /\ ret.kind /= "DynamicCodeMalformed" => ret.code_lengths = expanded
            /\ ret.kind = "Ok" =>
                   /\ ret.ll_lengths = [j \in 1..288 |->
                                           IF j <= HLIT + 257 THEN expanded[j] ELSE 0]
                   /\ ret.distance_lengths = [j \in 1..32 |->
                                                 IF j <= HDIST + 1
                                                 THEN expanded[HLIT + 257 + j] ELSE 0]

\* A table built from a stream with a length, its repeat and both runs of
\* zeros, the repeated length at the head of the literal/length lengths.
C16_Witness ==
    /\ NewDynamicReturned /\ ret.kind = "Ok"
    /\ \A sym \in {8, 16, 17, 18} : \E j \in 1..Len(ret.trace) : ret.trace[j].symbol = sym
    /\ SubSeq(ret.ll_lengths, 1, 5) = <<8, 8, 8, 8, 0>>

\* C18: for every value of HLIT, HDIST and HCLEN every array access of
\* new_dynamic is in bounds (HLIT + 257 <= 288, HDIST + 1 <= 32,
\* HCLEN + 4 <= 19); the loop stops as soon as HLIT + 257 + HDIST + 1 lengths
\* have been produced, and the lengths a last repeat run produces beyond that
\* are discarded without an error.
C18_DynamicBounds ==
    NewDynamicReturned =>
        LET needed == HLIT + 257 + HDIST + 1
        IN  /\ ret.kind /= "panic"
            /\ HLIT + 257 <= 288 /\ HDIST + 1 <= 32 /\ HCLEN + 4 <= 19
            /\ ret.kind = "Ok" <=> Len(ret.code_lengths) >= needed
            /\ ret.trace /= <<>> =>
                   Len(ClaimedExpansion(ret.trace, Len(ret.trace) - 1)) < needed
            /\ ret.kind = "IoError" => reader.pos = Len(reader.input)
            /\ ret.kind \in {"Ok", "IoError", "DynamicCodeMalformed"}

\* The largest counts, and a last run of zeros that went past the 320 lengths needed.
C18_Witness ==
    /\ NewDynamicReturned /\ ret.kind = "Ok"
    /\ HLIT = 31 /\ HDIST = 31 /\ HCLEN = 15
    /\ ret.trace[Len(ret.trace)].symbol = 18
    /\ Len(ret.code_lengths) > 320

====
